---- MODULE Spec2Model ----
(***************************************************************************)
(* Sparse Merkle tree of smt-rs: src/src/types.rs (HashValue, Node),       *)
(* src/src/store.rs (MemoryStore) and src/src/tree.rs (SparseMerkleTree).  *)
(*                                                                         *)
(* Byte strings are tuples of small numbers.  A HashValue is either the    *)
(* all-zero placeholder <<"Z">> or <<"H", bytes>>, the digest of `bytes`:  *)
(* Blake2s is modelled as collision-free, so a digest is the term of its   *)
(* pre-image, and never the placeholder.  The bits of a digest come from a *)
(* table for the keys and are all ones for every other pre-image.          *)
(***************************************************************************)
EXTENDS Integers, Sequences, FiniteSets, TLC

\* ---------------------------------------------------------------- bounds
\* HashValue::DEPTH, the number of bits of a digest (256 in types.rs:19),
\* scaled down: the walk, the common prefix and the bubble-up loop all run
\* over 0..DEPTH-1.
DEPTH == 4
\* update calls on the tree of Spec
MaxSteps == 4
\* update calls on each of the two trees of SpecPair
MaxPairSteps == 2
\* update and set_root calls on the tree of SpecRoot
MaxRootSteps == 4

\* ---------------------------------------------------------------- inputs
KeyA == <<97>>
KeyB == <<98>>
KeyC == <<99>>
Keys == {KeyA, KeyB, KeyC}
Val1 == <<1>>
Val2 == <<2>>
NonEmptyValues == {Val1, Val2}
DEFAULT_VALUE == <<>>
Values == NonEmptyValues \cup {DEFAULT_VALUE}
TreeIds == {1, 2}

\* ------------------------------------------------------------ types.rs
LEAF_TAG == 0
INTERNAL_TAG == 1

\* The leading bits of the digests of the keys (MSB first); the bits past
\* the table are zero.  KeyA and KeyB share 3 leading bits, KeyC shares none.
KeyBitTable ==
  [b \in Keys |-> IF b = KeyA THEN <<0, 1, 1, 0>>
                  ELSE IF b = KeyB THEN <<0, 1, 1, 1>>
                  ELSE <<1, 0, 0, 0>>]

placeholder == <<"Z">>

is_placeholder(h) == h = placeholder

digest_of(data) == <<"H", data>>

\* bit `index` of the 32 bytes of h, for index < DEPTH
HashBit(h, index) ==
  IF is_placeholder(h) THEN 0
  ELSE IF h[2] \in Keys
       THEN (IF index + 1 <= Len(KeyBitTable[h[2]])
             THEN KeyBitTable[h[2]][index + 1] ELSE 0)
       ELSE 1

\* has_bit_set indexes hash[index / 8]: an index >= DEPTH is out of the
\* array and panics.
BitInRange(index) == index < DEPTH

has_bit_set(h, index) == HashBit(h, index) # 0

RECURSIVE PrefixFrom(_, _, _)
PrefixFrom(a, b, i) ==
  IF i >= DEPTH THEN 0
  ELSE IF HashBit(a, i) = HashBit(b, i) THEN 1 + PrefixFrom(a, b, i + 1)
  ELSE 0

common_prefix_bits_len(a, b) == PrefixFrom(a, b, 0)

\* Node: Leaf((key, value_hash)) or Internal((left, right))
new_leaf(key, value_hash) == [kind |-> "Leaf", a |-> key, b |-> value_hash]

new_internal(left, right) == [kind |-> "Internal", a |-> left, b |-> right]

is_leaf(node) == node.kind = "Leaf"

\* Option<Node>::None
NoNode == [kind |-> "None", a |-> placeholder, b |-> placeholder]

\* the encoded node: the tag byte, then the two digests
EncodedBytes(node) ==
  <<(IF node.kind = "Leaf" THEN LEAF_TAG ELSE INTERNAL_TAG), node.a, node.b>>

encode(node) ==
  LET bits == EncodedBytes(node)
  IN  [h |-> digest_of(bits), bits |-> bits]

\* decode: Err for a wrong length or an unknown tag
DecodeOk(raw) == Len(raw) = 3 /\ raw[1] \in {LEAF_TAG, INTERNAL_TAG}

\* Variant: the two digests are read in the other order.
decodeSwapsDigests(raw) ==
  IF raw[1] = LEAF_TAG THEN new_leaf(raw[3], raw[2])
  ELSE new_internal(raw[3], raw[2])

decode(raw) ==
  IF raw[1] = LEAF_TAG THEN new_leaf(raw[2], raw[3])
  ELSE new_internal(raw[2], raw[3])

\* ------------------------------------------------------------ store.rs
EmptyMap == [x \in {} |-> <<>>]

MapInsert(m, k, v) == [x \in (DOMAIN m) \cup {k} |-> IF x = k THEN v ELSE m[x]]

MapRemove(m, k) == [x \in (DOMAIN m) \ {k} |-> m[x]]

set_node(nodes, key, value) == MapInsert(nodes, key, value)

delete_node(nodes, key) == MapRemove(nodes, key)

set_value(values, key, value) == MapInsert(values, key, value)

delete_value(values, key) == MapRemove(values, key)

\* get_node(h).and_then(decode) is Ok
NodeReadable(nodes, h) == h \in DOMAIN nodes /\ DecodeOk(nodes[h])

ReadNode(nodes, h) == decode(nodes[h])

\* -------------------------------------------------------------- tree.rs
Reverse(s) == [i \in 1..Len(s) |-> s[Len(s) + 1 - i]]

\* The result of a walk: Ok((sidenodes, pathnodes, Option<Node>, None)) or Err
WalkOk(sn, pn, leaf) == [ok |-> TRUE, sidenodes |-> sn, pathnodes |-> pn, leaf |-> leaf]

WalkErr == [ok |-> FALSE, sidenodes |-> <<>>, pathnodes |-> <<>>, leaf |-> NoNode]

\* walk_for_subnodes: iteration i of the loop and the ones after it, with
\* `node` the node the walk stands on
RECURSIVE WalkFrom(_, _, _, _, _, _)
WalkFrom(nodes, path, sidenodes, pathnodes, node, i) ==
  IF i >= DEPTH
  THEN WalkOk(Reverse(sidenodes), Reverse(pathnodes), node)
  ELSE IF node.kind # "Internal"
  THEN WalkErr
  ELSE LET right == has_bit_set(path, i)
           sidenode == IF right THEN node.a ELSE node.b
           nodehash == IF right THEN node.b ELSE node.a
           sn == Append(sidenodes, sidenode)
           pn == Append(pathnodes, nodehash)
       IN  IF is_placeholder(nodehash)
           THEN WalkOk(Reverse(sn), Reverse(pn), NoNode)
           ELSE IF ~NodeReadable(nodes, nodehash)
           THEN WalkErr
           ELSE LET next == ReadNode(nodes, nodehash)
                IN  IF is_leaf(next)
                    THEN WalkOk(Reverse(sn), Reverse(pn), next)
                    ELSE WalkFrom(nodes, path, sn, pn, next, i + 1)

walk_for_subnodes(nodes, path, sidenodes, pathnodes, current_node) ==
  WalkFrom(nodes, path, sidenodes, pathnodes, current_node, 0)

get_sidenodes(nodes, path, root) ==
  LET snodes == <<>>
      pnodes == <<root>>
  IN  IF is_placeholder(root)
      THEN WalkOk(snodes, pnodes, NoNode)
      ELSE IF ~NodeReadable(nodes, root)
      THEN WalkErr
      ELSE LET node == ReadNode(nodes, root)
           IN  IF is_leaf(node)
               THEN WalkOk(snodes, pnodes, node)
               ELSE walk_for_subnodes(nodes, path, snodes, pnodes, node)

\* A call's outcome on the tree's fields: res is "ok" (Ok), "err" (Err) or
\* "panic"; root is the returned root (the old one unless res = "ok").
Outcome(res, root, nodes, values) ==
  [res |-> res, root |-> root, nodes |-> nodes, values |-> values]

RECURSIVE DeleteNodesFrom(_, _, _)
\* delete_node of pathnodes[index..] (1-based)
DeleteNodesFrom(nodes, pathnodes, index) ==
  IF index > Len(pathnodes) THEN nodes
  ELSE DeleteNodesFrom(delete_node(nodes, pathnodes[index]), pathnodes, index + 1)

\* sidenodes.get(i).or_else(..): <<sn>> for Some(sn), <<>> for None
SideNodeAt(sidenodes, common_prefix_count, i) ==
  IF i < Len(sidenodes) THEN <<sidenodes[i + 1]>>
  ELSE IF common_prefix_count # DEPTH /\ common_prefix_count > DEPTH - 1 - i
       THEN <<placeholder>>
       ELSE <<>>

\* the bubble-up loop, iteration i and the ones after it
RECURSIVE BubbleFrom(_, _, _, _, _, _)
BubbleFrom(nodes, path, sidenodes, common_prefix_count, next_hash, i) ==
  IF i >= DEPTH
  THEN [panic |-> FALSE, nodes |-> nodes, next_hash |-> next_hash]
  ELSE LET sn == SideNodeAt(sidenodes, common_prefix_count, i)
       IN  IF sn = <<>>
           THEN BubbleFrom(nodes, path, sidenodes, common_prefix_count, next_hash, i + 1)
           ELSE IF ~BitInRange(common_prefix_count)
           THEN [panic |-> TRUE, nodes |-> nodes, next_hash |-> next_hash]
           ELSE LET sidenode == sn[1]
                    node == IF has_bit_set(path, common_prefix_count)
                            THEN new_internal(sidenode, next_hash)
                            ELSE new_internal(next_hash, sidenode)
                    e == encode(node)
                IN  BubbleFrom(set_node(nodes, e.h, e.bits), path, sidenodes,
                               common_prefix_count, e.h, i + 1)

\* `Ok(current_hash)`: the loop and the splitter assign their own, inner
\* current_hash, so the one returned is the hash of the new leaf
ReturnedRoot(current_hash, next_hash) == current_hash

\* Variant: the comparison with the stored value hash never succeeds.
SameValueHashNever(uovh, value_hash) == FALSE

\* uovh == value_hash: the value is the one already stored
SameValueHash(uovh, value_hash) == uovh = value_hash

\* Variant: the value is never stored.
StoreValueDropped(values, path, value) == values

\* Variant: the value is stored under its own hash instead of the path.
StoreValueByValueHash(values, path, value) ==
  set_value(values, digest_of(value), value)

\* set_value(path, value) at the end of update_with_sidenodes
StoreValue(values, path, value) == set_value(values, path, value)

\* Variant: the splitter's hash is not carried into the bubble-up loop
\* (next_hash stays the new leaf's hash).
UpdateTailSplitterNotChained(self, nodes, path, value, value_hash, sidenodes, pathnodes, path_node_root, has_old, old_value_hash, common_prefix_count, current_hash) ==
  LET split == common_prefix_count # DEPTH
      splitter == encode(IF has_bit_set(path, common_prefix_count)
                         THEN new_internal(path_node_root, current_hash)
                         ELSE new_internal(current_hash, path_node_root))
      replace == ~split /\ has_old
      nodes2 == IF split THEN set_node(nodes, splitter.h, splitter.bits)
                ELSE IF replace THEN delete_node(nodes, path_node_root)
                ELSE nodes
      values2 == IF replace THEN delete_value(self.values, path) ELSE self.values
      next_hash == current_hash
      nodes3 == DeleteNodesFrom(nodes2, pathnodes, 2)
      up == BubbleFrom(nodes3, path, sidenodes, common_prefix_count, next_hash, 0)
  IN  IF replace /\ SameValueHash(old_value_hash, value_hash)
      THEN Outcome("ok", self.root, nodes, self.values)
      ELSE IF up.panic
      THEN Outcome("panic", self.root, up.nodes, values2)
      ELSE Outcome("ok", ReturnedRoot(current_hash, up.next_hash), up.nodes,
                   StoreValue(values2, path, value))

\* update_with_sidenodes from the splitter on; nodes holds the new leaf
UpdateTail(self, nodes, path, value, value_hash, sidenodes, pathnodes, path_node_root, has_old, old_value_hash, common_prefix_count, current_hash) ==
  LET split == common_prefix_count # DEPTH
      splitter == encode(IF has_bit_set(path, common_prefix_count)
                         THEN new_internal(path_node_root, current_hash)
                         ELSE new_internal(current_hash, path_node_root))
      replace == ~split /\ has_old
      nodes2 == IF split THEN set_node(nodes, splitter.h, splitter.bits)
                ELSE IF replace THEN delete_node(nodes, path_node_root)
                ELSE nodes
      values2 == IF replace THEN delete_value(self.values, path) ELSE self.values
      next_hash == IF split THEN splitter.h ELSE current_hash
      nodes3 == DeleteNodesFrom(nodes2, pathnodes, 2)
      up == BubbleFrom(nodes3, path, sidenodes, common_prefix_count, next_hash, 0)
  IN  IF replace /\ SameValueHash(old_value_hash, value_hash)
      THEN Outcome("ok", self.root, nodes, self.values)
      ELSE IF up.panic
      THEN Outcome("panic", self.root, up.nodes, values2)
      ELSE Outcome("ok", ReturnedRoot(current_hash, up.next_hash), up.nodes,
                   StoreValue(values2, path, value))

update_with_sidenodes(self, path, value, sidenodes, pathnodes, old_leaf_node) ==
  LET value_hash == digest_of(value)
      leaf == encode(new_leaf(path, value_hash))
      nodes1 == set_node(self.nodes, leaf.h, leaf.bits)
      current_hash == leaf.h
  IN  IF Len(pathnodes) = 0
      THEN Outcome("err", self.root, nodes1, self.values)
      ELSE LET path_node_root == pathnodes[1]
               has_old == ~is_placeholder(path_node_root)
           IN  IF has_old /\ ~is_leaf(old_leaf_node)
               THEN Outcome("err", self.root, nodes1, self.values)
               ELSE UpdateTail(self, nodes1, path, value, value_hash, sidenodes,
                               pathnodes, path_node_root, has_old,
                               IF has_old THEN old_leaf_node.b ELSE placeholder,
                               IF has_old
                               THEN common_prefix_bits_len(path, old_leaf_node.a)
                               ELSE DEPTH,
                               current_hash)

\* Variant: the leaf the walk ended at is taken for the key's, unchecked.
LeafIsForPathAny(old_leaf_node, path) == TRUE

\* the leaf the walk ended at holds this path: actual_path == path
LeafIsForPath(old_leaf_node, path) == old_leaf_node.a = path

\* delete_for_sidenode: the nodes left and the root returned
delete_for_sidenode(self, path, sidenodes, pathnodes, old_leaf_node) ==
  IF Len(pathnodes) = 0
  THEN Outcome("panic", self.root, self.nodes, self.values)
  ELSE IF is_placeholder(pathnodes[1])
  THEN Outcome("err", self.root, self.nodes, self.values)
  ELSE IF ~is_leaf(old_leaf_node)
  THEN Outcome("err", self.root, self.nodes, self.values)
  ELSE IF ~LeafIsForPath(old_leaf_node, path)
  THEN Outcome("err", self.root, self.nodes, self.values)
  ELSE Outcome("ok", placeholder, DeleteNodesFrom(self.nodes, pathnodes, 1),
               self.values)

update_for_root(self, key, value, root) ==
  LET path == digest_of(key)
      w == get_sidenodes(self.nodes, path, root)
  IN  IF ~w.ok
      THEN Outcome("err", self.root, self.nodes, self.values)
      ELSE IF value = DEFAULT_VALUE
      THEN LET d == delete_for_sidenode(self, path, w.sidenodes, w.pathnodes, w.leaf)
           IN  IF d.res = "ok"
               THEN Outcome("ok", d.root, d.nodes, delete_value(d.values, path))
               ELSE IF d.res = "err"
               THEN Outcome("ok", root, d.nodes, d.values)
               ELSE d
      ELSE update_with_sidenodes(self, path, value, w.sidenodes, w.pathnodes, w.leaf)

\* Variant: a failed update_for_root resets the root to the default digest.
updateResetsRootOnErr(self, key, value) ==
  LET r == update_for_root(self, key, value, self.root)
  IN  IF r.res = "ok" THEN r ELSE Outcome(r.res, placeholder, r.nodes, r.values)

\* update: set_root(new_root) only when update_for_root returned Ok
update(self, key, value) ==
  LET r == update_for_root(self, key, value, self.root)
  IN  IF r.res = "ok" THEN r ELSE Outcome(r.res, self.root, r.nodes, r.values)

\* Variant: get reads V without looking at the root.
getIgnoresRoot(self, key) ==
  IF digest_of(key) \in DOMAIN self.values
  THEN <<self.values[digest_of(key)]>>
  ELSE <<>>

\* get: None is <<>>, Some(v) is <<v>>
get(self, key) ==
  IF is_placeholder(self.root) THEN <<>>
  ELSE IF digest_of(key) \in DOMAIN self.values
       THEN <<self.values[digest_of(key)]>>
       ELSE <<>>

new_tree == [root |-> placeholder, nodes |-> EmptyMap, values |-> EmptyMap]

\* ---------------------------------------------------------- the machine
\* trees[t] is a SparseMerkleTree: its root and its store's two maps.  The
\* other variables record the calls made, for the properties:
\*   calls[t]    the number of update calls
\*   amap[t]     the mapping the calls ask for: the last non-empty value
\*               written to each key and not deleted since
\*   written[t]  the keys ever passed to update with a non-empty value
\*   deletes[t]  the number of update calls with the empty value
\*   distinct[t] every call so far wrote a non-empty value to a new key
\*   last[t], prev[t]  the last call and the one before it, each with the
\*               tree and the mapping it started from
VARIABLES trees, calls, amap, written, deletes, distinct, last, prev

vars == <<trees, calls, amap, written, deletes, distinct, last, prev>>

NoCall ==
  [key |-> <<>>, value |-> <<>>, res |-> "none", pre |-> new_tree,
   preamap |-> EmptyMap]

Init ==
  /\ trees = [t \in TreeIds |-> new_tree]
  /\ calls = [t \in TreeIds |-> 0]
  /\ amap = [t \in TreeIds |-> EmptyMap]
  /\ written = [t \in TreeIds |-> {}]
  /\ deletes = [t \in TreeIds |-> 0]
  /\ distinct = [t \in TreeIds |-> TRUE]
  /\ last = [t \in TreeIds |-> NoCall]
  /\ prev = [t \in TreeIds |-> NoCall]

\* tree t's update(key, value); a panic ends the use of the tree
Update(t, key, value, limit) ==
  /\ calls[t] < limit
  /\ last[t].res # "panic"
  /\ LET r == update(trees[t], key, value)
     IN  /\ trees' = [trees EXCEPT ![t] =
                        [root |-> r.root, nodes |-> r.nodes, values |-> r.values]]
         /\ last' = [last EXCEPT ![t] =
                       [key |-> key, value |-> value, res |-> r.res,
                        pre |-> trees[t], preamap |-> amap[t]]]
  /\ prev' = [prev EXCEPT ![t] = last[t]]
  /\ calls' = [calls EXCEPT ![t] = @ + 1]
  /\ amap' = [amap EXCEPT ![t] =
                IF value = DEFAULT_VALUE THEN MapRemove(@, key)
                ELSE MapInsert(@, key, value)]
  /\ written' = [written EXCEPT ![t] =
                   IF value = DEFAULT_VALUE THEN @ ELSE @ \cup {key}]
  /\ deletes' = [deletes EXCEPT ![t] =
                   IF value = DEFAULT_VALUE THEN @ + 1 ELSE @]
  /\ distinct' = [distinct EXCEPT ![t] =
                    @ /\ value # DEFAULT_VALUE /\ key \notin written[t]]

\* one tree, built from new(None) by update calls
Next == \E key \in Keys, value \in Values : Update(1, key, value, MaxSteps)

Spec == Init /\ [][Next]_vars

\* two trees, each built from new(None) by its own update calls
NextPair ==
  \E t \in TreeIds, key \in Keys, value \in Values :
    Update(t, key, value, MaxPairSteps)

SpecPair == Init /\ [][NextPair]_vars

\* a digest that is the address of no node
UnknownRoot == digest_of(<<7>>)

\* the digests a caller of set_root can name here: the placeholder, the
\* address of any node the store holds, and an unknown one
RootChoices(t) == (DOMAIN trees[t].nodes) \cup {placeholder, UnknownRoot}

\* set_root
set_root(self, root) == [self EXCEPT !.root = root]

\* tree t's set_root(h); last[t] then holds no update call
SetRoot(t, h, limit) ==
  /\ calls[t] < limit
  /\ last[t].res # "panic"
  /\ h # trees[t].root
  /\ trees' = [trees EXCEPT ![t] = set_root(@, h)]
  /\ last' = [last EXCEPT ![t] = [NoCall EXCEPT !.pre = set_root(trees[t], h),
                                                !.preamap = amap[t]]]
  /\ prev' = [prev EXCEPT ![t] = last[t]]
  /\ calls' = [calls EXCEPT ![t] = @ + 1]
  /\ UNCHANGED <<amap, written, deletes, distinct>>

\* one tree, built from new(None) by update and set_root calls
NextRoot ==
  \/ \E key \in Keys, value \in Values : Update(1, key, value, MaxRootSteps)
  \/ \E h \in RootChoices(1) : SetRoot(1, h, MaxRootSteps)

SpecRoot == Init /\ [][NextRoot]_vars

\* ------------------------------------------------------------ properties
Tree == trees[1]

Other == trees[2]

Last == last[1]

Prev == prev[1]

IsInsert(call) == call.res # "none" /\ call.value # DEFAULT_VALUE

IsDelete(call) == call.res # "none" /\ call.value = DEFAULT_VALUE

\* C1: order independence.  Two fresh trees that received the same set of
\* (key, value) pairs, distinct keys and non-empty values, each pair once and
\* in any order, have the same root.
C1_OrderIndependence ==
  (distinct[1] /\ distinct[2] /\ amap[1] = amap[2])
    => Tree.root = Other.root

\* C2: the root commits to the mapping.  Two trees built from new(None) by
\* update calls in which get differs for some key have different roots.
C2_RootCommitsToMapping ==
  (\E k \in Keys : get(Tree, k) # get(Other, k)) => Tree.root # Other.root

\* C3: read-your-writes.  In any state reached by update calls, deletions
\* included, update(k, v) with non-empty v returns Ok, and right after it
\* get(k) = v and the root is not the placeholder.
C3_ReadYourWrites ==
  IsInsert(Last) =>
    /\ Last.res = "ok"
    /\ get(Tree, Last.key) = <<Last.value>>
    /\ ~is_placeholder(Tree.root)

\* an update with a non-empty value made after a delete emptied the tree
C3_Witness ==
  /\ IsInsert(Last) /\ Last.res = "ok"
  /\ IsDelete(Prev) /\ is_placeholder(Last.pre.root)
  /\ Last.pre.values # EmptyMap

\* C4: last write wins.  After update calls with non-empty values only (keys
\* may repeat), get(k) is, for every key written, the value of the most
\* recent update to k.
C4_LastWriteWins ==
  deletes[1] = 0 =>
    \A k \in written[1] : get(Tree, k) = <<amap[1][k]>>

\* a key overwritten with another value while a second key is stored
C4_Witness ==
  /\ deletes[1] = 0
  /\ Cardinality(written[1]) >= 2
  /\ IsInsert(Last) /\ Last.key \in DOMAIN Last.preamap
  /\ Last.preamap[Last.key] # Last.value
  /\ Last.key # Prev.key

\* C5: delete removes the key.  When get(k) returns a value, update(k, "")
\* makes get(k) return none.
C5_DeleteRemovesKey ==
  (IsDelete(Last) /\ get(Last.pre, Last.key) # <<>>)
    => get(Tree, Last.key) = <<>>

\* C6: delete round trip.  For a key k not in the tree, update(k, v) with
\* non-empty v followed by update(k, "") leaves the root as it was before
\* the two calls.
C6_DeleteRoundTrip ==
  ( /\ IsInsert(Prev) /\ IsDelete(Last) /\ Last.key = Prev.key
    /\ Prev.key \notin DOMAIN Prev.preamap
    /\ get(Prev.pre, Prev.key) = <<>> )
    => Tree.root = Prev.pre.root

\* C7: non-interference.  update(k1, v), v empty or not, leaves get(k2)
\* unchanged for every k2 # k1.
C7_NonInterference ==
  Last.res # "none" =>
    \A k2 \in Keys \ {Last.key} : get(Tree, k2) = get(Last.pre, k2)

\* C8: idempotent update.  Of two consecutive calls update(k, v) with the
\* same non-empty (k, v), the second leaves the root, N and V as the first
\* left them.
C8_IdempotentUpdate ==
  ( /\ IsInsert(Prev) /\ IsInsert(Last)
    /\ Last.key = Prev.key /\ Last.value = Prev.value )
    => (Last.res = "ok" /\ Tree = Last.pre)

\* the same pair written twice in a row, the first time over another value
\* of the key
C8_Witness ==
  /\ IsInsert(Prev) /\ IsInsert(Last)
  /\ Last.key = Prev.key /\ Last.value = Prev.value
  /\ Prev.key \in DOMAIN Prev.preamap
  /\ Prev.preamap[Prev.key] # Prev.value

\* C9: deleting an absent key is a silent no-op.  update(k, "") for a key
\* never written returns Ok and leaves the root, N and V unchanged.
C9_DeleteAbsentIsNoOp ==
  (IsDelete(Last) /\ Last.key \notin written[1])
    => (Last.res = "ok" /\ Tree = Last.pre)

\* a delete of a key never written, on a tree that holds another key
C9_Witness ==
  /\ IsDelete(Last) /\ Last.key \notin written[1]
  /\ ~is_placeholder(Last.pre.root)
  /\ Last.pre.values # EmptyMap

\* C10: history independence.  Two trees built by different histories
\* (overwrites, inserts followed by deletes) that end with the same mapping
\* have the same root.
C10_HistoryIndependence ==
  ( /\ amap[1] = amap[2]
    /\ \A k \in Keys : get(Tree, k) = get(Other, k) )
    => Tree.root = Other.root

\* C11: placeholder root means empty.  In every state reached by update
\* calls the root is the placeholder exactly when no key is present, a key
\* being present when it was written with a non-empty value and not deleted
\* by a later update(k, "").
C11_PlaceholderIffEmpty ==
  is_placeholder(Tree.root) <=> (DOMAIN amap[1] = {})

\* the lookup that walks the tree: <<value_hash>> when the walk from the root
\* along digest_of(key) ends at a Leaf with that key hash, <<>> otherwise
TreeLookup(self, key) ==
  LET w == get_sidenodes(self.nodes, digest_of(key), self.root)
  IN  IF w.ok /\ is_leaf(w.leaf) /\ w.leaf.a = digest_of(key)
      THEN <<w.leaf.b>> ELSE <<>>

\* C12: the value-store lookup and the tree lookup agree.  For every key,
\* get(k) returns a value exactly when the walk from the root along
\* digest_of(k) ends at a Leaf for k, and then the digest of that value is
\* the leaf's value hash.
C12_GetAgreesWithWalk ==
  \A k \in Keys :
    /\ (get(Tree, k) # <<>>) <=> (TreeLookup(Tree, k) # <<>>)
    /\ (get(Tree, k) # <<>> /\ TreeLookup(Tree, k) # <<>>)
         => digest_of(get(Tree, k)[1]) = TreeLookup(Tree, k)[1]

\* the Leaf nodes reached from h by following Internal children through N
RECURSIVE LeavesFrom(_, _)
LeavesFrom(nodes, h) ==
  IF is_placeholder(h) \/ ~NodeReadable(nodes, h) THEN {}
  ELSE LET n == ReadNode(nodes, h)
       IN  IF is_leaf(n) THEN {n}
           ELSE LeavesFrom(nodes, n.a) \cup LeavesFrom(nodes, n.b)

\* C13: value/leaf agreement (I4).  Every Leaf(k, vh) reachable from the
\* root through N has an entry V[k], and digest_of(V[k]) = vh.
C13_ValueLeafAgreement ==
  \A leaf \in LeavesFrom(Tree.nodes, Tree.root) :
    /\ leaf.a \in DOMAIN Tree.values
    /\ digest_of(Tree.values[leaf.a]) = leaf.b

\* the root leads to the leaf of a key whose value was just replaced, with
\* other keys stored
C13_Witness ==
  /\ IsInsert(Last) /\ Last.res = "ok"
  /\ Last.key \in DOMAIN Last.preamap
  /\ Last.preamap[Last.key] # Last.value
  /\ Cardinality(DOMAIN Tree.values) >= 2
  /\ new_leaf(digest_of(Last.key), digest_of(Last.value))
       \in LeavesFrom(Tree.nodes, Tree.root)

\* C14: a failed update leaves the root unchanged.  Whenever update returns
\* an error (the walk meets an address with no entry in N, as after set_root
\* to an unknown digest, or ends at a node that is no leaf), the root after
\* the call is the root before it.
C14_FailedUpdateKeepsRoot ==
  Last.res = "err" => Tree.root = Last.pre.root

\* an update that failed on a root with no entry in N
C14_Witness ==
  /\ Last.res = "err"
  /\ Last.pre.root = UnknownRoot
  /\ Last.pre.values # EmptyMap

\* the two maps together, m2's entry where both have one
MapMerge(m1, m2) ==
  [x \in (DOMAIN m1) \cup (DOMAIN m2) |-> IF x \in DOMAIN m2 THEN m2[x] ELSE m1[x]]

\* the addresses referenced from h, h included, following the children of
\* the Internal nodes that `nodes` holds
RECURSIVE RefsFrom(_, _)
RefsFrom(nodes, h) ==
  IF is_placeholder(h) THEN {}
  ELSE IF ~NodeReadable(nodes, h) THEN {h}
  ELSE LET n == ReadNode(nodes, h)
       IN  IF is_leaf(n) THEN {h}
           ELSE {h} \cup RefsFrom(nodes, n.a) \cup RefsFrom(nodes, n.b)

\* C15: the returned root is addressable.  After every update that returns
\* Ok the root is the placeholder or an address in N, and every node the new
\* root references, directly or through Internal nodes (read from N as it
\* was before and is after the call), is still in N: the call's deletions
\* removed none of them.
C15_RootAddressable ==
  Last.res = "ok" =>
    RefsFrom(MapMerge(Last.pre.nodes, Tree.nodes), Tree.root)
      \subseteq DOMAIN Tree.nodes

\* an update that returned Ok, deleted a node and left a root that is not
\* the placeholder
C15_Witness ==
  /\ Last.res = "ok"
  /\ (DOMAIN Last.pre.nodes) \ (DOMAIN Tree.nodes) # {}
  /\ ~is_placeholder(Tree.root)
  /\ Tree.root \in DOMAIN Tree.nodes

\* h is the address of a Leaf: the digest of an encoded node with the leaf tag
IsLeafAddress(h) ==
  ~is_placeholder(h) /\ Len(h[2]) = 3 /\ h[2][1] = LEAF_TAG

\* the Internal node n is in canonical form
Canonical(n) ==
  /\ ~(is_placeholder(n.a) /\ is_placeholder(n.b))
  /\ ~(is_placeholder(n.a) /\ IsLeafAddress(n.b))
  /\ ~(IsLeafAddress(n.a) /\ is_placeholder(n.b))

\* the Internal nodes N holds
StoredInternals(self) ==
  {decode(self.nodes[h]) : h \in {x \in DOMAIN self.nodes : ~is_leaf(decode(self.nodes[x]))}}

\* C16: canonical form (I2).  In every state reached by update calls
\* (inserts, overwrites, deletes) no Internal node in N has two placeholder
\* children, and none has one placeholder child and one child that is the
\* address of a Leaf.
C16_CanonicalForm ==
  \A n \in StoredInternals(Tree) : Canonical(n)

\* N holds a splitter and an Internal with a placeholder child above it,
\* and a delete has emptied the tree since
C16_Witness ==
  /\ \E n \in StoredInternals(Tree) : IsLeafAddress(n.a) /\ IsLeafAddress(n.b)
  /\ \E n \in StoredInternals(Tree) : is_placeholder(n.a) \/ is_placeholder(n.b)
  /\ IsDelete(Last) /\ is_placeholder(Tree.root) /\ ~is_placeholder(Last.pre.root)

\* C17: empty tree.  new(None) has the placeholder root, and in any state
\* whose root is the placeholder get(k) returns none for every key.
C17_EmptyTree ==
  /\ calls[1] = 0 => is_placeholder(Tree.root)
  /\ is_placeholder(Tree.root) => \A k \in Keys : get(Tree, k) = <<>>

\* the root is the placeholder while V still holds values
C17_Witness ==
  /\ is_placeholder(Tree.root)
  /\ calls[1] > 0
  /\ Tree.values # EmptyMap

\* digests of the state: the placeholder, the root, the hashed keys in V
DigestPool(self) == (DOMAIN self.values) \cup {placeholder, self.root}

\* the nodes N holds and the Leaf and Internal nodes over the pool's digests
NodePool(self) ==
  {decode(self.nodes[h]) : h \in DOMAIN self.nodes}
    \cup {new_leaf(a, b) : a \in DigestPool(self), b \in DigestPool(self)}
    \cup {new_internal(a, b) : a \in DigestPool(self), b \in DigestPool(self)}

\* C18: encoding round trip.  For every Node n, decode(encode(n).bytes) = n,
\* the bytes are the tag (0 Leaf, 1 Internal) followed by the two digests,
\* and encode(n).address = digest_of(encode(n).bytes).
C18_EncodingRoundTrip ==
  \A n \in NodePool(Tree) :
    LET e == encode(n)
    IN  /\ DecodeOk(e.bits)
        /\ decode(e.bits) = n
        /\ e.bits = <<(IF n.kind = "Leaf" THEN 0 ELSE 1), n.a, n.b>>
        /\ e.h = digest_of(e.bits)

\* N holds Leaf and Internal nodes, one Internal with distinct children
C18_Witness ==
  /\ \E n \in NodePool(Tree) : n.kind = "Internal" /\ n.a # n.b /\ encode(n).h \in DOMAIN Tree.nodes
  /\ \E n \in NodePool(Tree) : n.kind = "Leaf" /\ encode(n).h \in DOMAIN Tree.nodes

\* the hash of the new leaf of update(key, value)
NewLeafHash(key, value) == encode(new_leaf(digest_of(key), digest_of(value))).h

\* the final next_hash of update(key, value) on self: the address of the
\* topmost Internal written by the splitter and the bubble-up loop, or the
\* new leaf's hash when they write none
BubbledHash(self, key, value) ==
  LET path == digest_of(key)
      w == get_sidenodes(self.nodes, path, self.root)
      path_node_root == w.pathnodes[1]
      has_old == ~is_placeholder(path_node_root)
      common_prefix_count == IF has_old THEN common_prefix_bits_len(path, w.leaf.a) ELSE DEPTH
      current_hash == NewLeafHash(key, value)
      splitter == encode(IF has_bit_set(path, common_prefix_count)
                         THEN new_internal(path_node_root, current_hash)
                         ELSE new_internal(current_hash, path_node_root))
      next_hash == IF common_prefix_count # DEPTH THEN splitter.h ELSE current_hash
  IN  BubbleFrom(self.nodes, path, w.sidenodes, common_prefix_count, next_hash, 0).next_hash

\* C19: update returns the bubbled-up hash.  When update(k, v) with
\* non-empty v writes a splitter or Internal nodes in the bubble-up loop, the
\* root after the call is the address of the topmost Internal written.
C19_RootIsBubbledHash ==
  ( /\ IsInsert(Last) /\ Last.res = "ok"
    /\ BubbledHash(Last.pre, Last.key, Last.value) # NewLeafHash(Last.key, Last.value) )
    => Tree.root = BubbledHash(Last.pre, Last.key, Last.value)

\* C20: the bit accessor is never called out of range.  No update call
\* evaluates has_bit_set with an index >= DEPTH, also on a tree whose root
\* was set to a stored Internal node.
C20_BitIndexInRange ==
  Last.res # "panic"

\* the node the walk from the root along `path` ends at (NoNode when the
\* walk fails or ends in a placeholder slot)
WalkEnd(self, path) ==
  LET w == get_sidenodes(self.nodes, path, self.root)
  IN  IF w.ok THEN w.leaf ELSE NoNode

\* update(key, value) on self takes the replace branch: the walk ends at the
\* Leaf of the key, which holds another value hash
ReplacesLeaf(self, key, value) ==
  /\ value # DEFAULT_VALUE
  /\ is_leaf(WalkEnd(self, digest_of(key)))
  /\ WalkEnd(self, digest_of(key)).a = digest_of(key)
  /\ WalkEnd(self, digest_of(key)).b # digest_of(value)

\* C21: value replacement.  When update(k, v2) with non-empty v2 is applied
\* and the walk ends at Leaf(digest_of(k), vh1) with vh1 # digest_of(v2),
\* then after the call the old leaf's address is absent from N, the new leaf
\* Leaf(digest_of(k), digest_of(v2)) is in N at its digest, and
\* V[digest_of(k)] = v2.
C21_ValueReplacement ==
  (Last.res # "none" /\ ReplacesLeaf(Last.pre, Last.key, Last.value)) =>
    /\ encode(WalkEnd(Last.pre, digest_of(Last.key))).h \notin DOMAIN Tree.nodes
    /\ NewLeafHash(Last.key, Last.value) \in DOMAIN Tree.nodes
    /\ Tree.nodes[NewLeafHash(Last.key, Last.value)]
         = encode(new_leaf(digest_of(Last.key), digest_of(Last.value))).bits
    /\ digest_of(Last.key) \in DOMAIN Tree.values
    /\ Tree.values[digest_of(Last.key)] = Last.value

\* update(key, value) on self takes the splitter branch: the walk ends at
\* the Leaf of another key
SplitsLeaf(self, key, value) ==
  /\ value # DEFAULT_VALUE
  /\ is_leaf(WalkEnd(self, digest_of(key)))
  /\ WalkEnd(self, digest_of(key)).a # digest_of(key)

\* common_prefix_count of that branch
SplitDepth(self, key) ==
  common_prefix_bits_len(digest_of(key), WalkEnd(self, digest_of(key)).a)

\* C22: the bubble-up builds a path the walk can follow.  After update(k, v)
\* creates a splitter at common-prefix depth c >= 1 above an existing leaf,
\* the walk along digest_of(k) from the topmost Internal node the bubble-up
\* loop wrote ends at the new Leaf(digest_of(k), digest_of(v)), and the walk
\* along the old leaf's key hash from that node ends at the old leaf.
C22_BubbleUpFollowsWalk ==
  ( /\ Last.res = "ok"
    /\ SplitsLeaf(Last.pre, Last.key, Last.value)
    /\ SplitDepth(Last.pre, Last.key) >= 1 )
    => LET path == digest_of(Last.key)
           old == WalkEnd(Last.pre, path)
           top == set_root(Tree, BubbledHash(Last.pre, Last.key, Last.value))
       IN  /\ WalkEnd(top, path) = new_leaf(path, digest_of(Last.value))
           /\ WalkEnd(top, old.a) = old

====
